---- MODULE Spec2Model ----
(***************************************************************************)
(* Model of dataaccess.MongoDataAccess (src/dataaccess/dataaccess.go):     *)
(* the profiles, skills and configuration collections of the document      *)
(* store and the nine operations of the DataAccess interface.              *)
(*                                                                         *)
(* Strings are sequences of one-character strings, so that ToLower, Split  *)
(* and Replace are computed character by character as the Go library does. *)
(* A collection is a function from the ids of the documents it holds to    *)
(* the documents.  Every storage call (Dial, FindId.One, Find.All,         *)
(* UpsertId, RemoveId, Insert, DropCollection) may fail.                   *)
(***************************************************************************)
EXTENDS Integers, Sequences, FiniteSets, TLC

VARIABLES
    profiles,       \* collection "profiles": EmailAddress -> Profile
    skills,         \* collection "skills": tag text -> SkillTag
    configuration,  \* collection "configuration": "configuration" -> Configuration
    nextKey,        \* number of session encryption keys generated so far
    clock,          \* time.Now().Unix()
    pc,             \* per caller: the storage call its operation will make next
    local,          \* per caller: the local variables of its running operation
    last,           \* the call that returned most recently, with its results
    cfglog,         \* the configuration calls that returned, most recent last
    nUpserts        \* number of profile upserts performed

vars == <<profiles, skills, configuration, nextKey, clock, pc, local, last,
          cfglog, nUpserts>>

----------------------------------------------------------------------------
(* Bounds of the model *)

MaxUpserts == 3
MaxClock == 2
MaxKeys == 3
MaxBatch == 2
LogDepth == 3
MaxTagLen == 3

----------------------------------------------------------------------------
(* strings *)

Uppers == <<"A","B","C","D","E","F","G","H","I","J","K","L","M",
            "N","O","P","Q","R","S","T","U","V","W","X","Y","Z">>
Lowers == <<"a","b","c","d","e","f","g","h","i","j","k","l","m",
            "n","o","p","q","r","s","t","u","v","w","x","y","z">>

IsUpper(c) == \E i \in DOMAIN Uppers : Uppers[i] = c

ToLowerChar(c) ==
    IF IsUpper(c) THEN Lowers[CHOOSE i \in DOMAIN Uppers : Uppers[i] = c] ELSE c

\* strings.ToLower
ToLower(s) == [i \in DOMAIN s |-> ToLowerChar(s[i])]

\* strings.Split(s, sep) for a one-character separator: the pieces between
\* the separators, in order (n separators give n+1 pieces).
RECURSIVE SplitFrom(_, _, _, _)
SplitFrom(s, sep, i, piece) ==
    IF i > Len(s) THEN <<piece>>
    ELSE IF s[i] = sep THEN <<piece>> \o SplitFrom(s, sep, i + 1, <<>>)
    ELSE SplitFrom(s, sep, i + 1, Append(piece, s[i]))

Split(s, sep) == SplitFrom(s, sep, 1, <<>>)

\* strings.Replace(s, old, new, -1) for one-character old and new
ReplaceAll(s, old, new) == [i \in DOMAIN s |-> IF s[i] = old THEN new ELSE s[i]]

\* getDomain without the strings.ToLower
getDomainNoLower(emailAddress) == Split(emailAddress, "@")[2]

\* line 204.  Go indexes from 0: Split(...)[1] is the second piece.
getDomain(emailAddress) == ToLower(Split(emailAddress, "@")[2])

\* CleanTag without the strings.ToLower
CleanTagNoLower(tag) == ReplaceAll(tag, " ", "-")

\* lines 227-229
CleanTag(tag) == ReplaceAll(ToLower(tag), " ", "-")

----------------------------------------------------------------------------
(* inputs *)

Callers == {"c1", "c2", "c3"}

\* the callers of the sequential specifications
SeqCallers == {"c1"}

\* EmailAddress keys: two of one domain spelled in different case, one of
\* another domain.
Emails == { <<"a","@","X">>, <<"b","@","x">>, <<"c","@","y">> }

SkillGo == [Skill |-> <<"G","o">>, Level |-> 3]
SkillRust == [Skill |-> <<"r","u","s","t">>, Level |-> 4]

SkillLists == { <<>>, <<SkillGo>>, <<SkillRust>> }

Availabilities == { "weekdays", "weekends" }

\* the key of the specification of the versioning and history rollover
HistoryEmails == { <<"a","@","X">> }

\* ProfileUpdate values for a set of keys
UpdatesFor(emails) ==
    [EmailAddress : emails, Skills : SkillLists, Availability : {"weekdays"}]
    \cup [EmailAddress : emails, Skills : {<<SkillRust>>},
          Availability : {"weekends"}]

Outcomes == {"ok", "fail"}

----------------------------------------------------------------------------
(* documents *)

\* time.Time{}: the LastUpdated of a profile that was never saved
ZeroTime == 0

\* NewProfile(): an empty profile
NewProfile ==
    [EmailAddress |-> <<>>, Domain |-> <<>>, Skills |-> <<>>,
     SkillsHistory |-> <<>>, Availability |-> "", Version |-> 0,
     LastUpdated |-> ZeroTime]

\* The element type of Profile.Skills and ProfileUpdate.Skills is a value
\* (a pair of skill name and level), not a pointer to one.
SkillElementsAreValues == TRUE

----------------------------------------------------------------------------
(* the storage calls *)

\* Query.One: nil, ErrNotFound, or the failure of the query
FindIdOne(c, id, query) ==
    IF query = "fail" THEN "ErrStorage"
    ELSE IF id \in DOMAIN c THEN "nil" ELSE "ErrNotFound"

\* an upsert that keeps a stored document whose Version is not lower
UpsertIdIfNewer(c, id, doc) ==
    IF id \in DOMAIN c /\ c[id].Version >= doc.Version
    THEN c
    ELSE [k \in DOMAIN c \cup {id} |-> IF k = id THEN doc ELSE c[k]]

\* Collection.UpsertId: insert-or-replace the document with this id
UpsertId(c, id, doc) ==
    [k \in DOMAIN c \cup {id} |-> IF k = id THEN doc ELSE c[k]]

\* Collection.RemoveId in safe mode: ErrNotFound when no document has the id
RemoveIdErr(c, id, rm) ==
    IF rm = "fail" THEN "ErrStorage"
    ELSE IF id \in DOMAIN c THEN "nil" ELSE "ErrNotFound"

\* a removal that takes every document of the collection with it
RemoveIdAll(c, id, rm) ==
    IF RemoveIdErr(c, id, rm) = "nil" THEN <<>> ELSE c

RemoveId(c, id, rm) ==
    IF RemoveIdErr(c, id, rm) = "nil"
    THEN [k \in DOMAIN c \ {id} |-> c[k]]
    ELSE c

----------------------------------------------------------------------------
(* the record of the call that returned last *)

NoUpdate == [EmailAddress |-> <<>>, Skills |-> <<>>, Availability |-> ""]

NoCall ==
    [op |-> "none", caller |-> "", key |-> <<>>, update |-> NoUpdate,
     err |-> "nil", found |-> FALSE, nilResult |-> TRUE,
     profile |-> NewProfile, list |-> {}, tags |-> <<>>,
     failed |-> FALSE, present |-> FALSE, pre |-> NewProfile, quiet |-> TRUE,
     before |-> <<>>, batch |-> <<>>, failAt |-> 0,
     fetched |-> NewProfile, start |-> NewProfile, startPresent |-> FALSE]

NoLocal == [update |-> NoUpdate, profile |-> NewProfile, found |-> FALSE,
            failed |-> FALSE, present |-> FALSE, pre |-> NewProfile,
            generated |-> FALSE, inserted |-> FALSE]

\* the stored document of a key, or the empty profile when there is none
Stored(c, id) == IF id \in DOMAIN c THEN c[id] ELSE NewProfile

----------------------------------------------------------------------------
(* GetProfile, lines 37-57 *)

\* The values GetProfile returns: dial is the outcome of mgo.Dial, query
\* that of FindId(emailAddress).One(result).  result is NewProfile() with
\* its EmailAddress set, overwritten by the document when one is read.
GetProfile(c, emailAddress, dial, query) ==
    LET result == [NewProfile EXCEPT !.EmailAddress = emailAddress]
        err == FindIdOne(c, emailAddress, query)
    IN  IF dial = "fail"
        THEN [profile |-> NewProfile, nilResult |-> TRUE, found |-> FALSE,
              err |-> "ErrDial"]
        ELSE IF err = "ErrNotFound"
        THEN [profile |-> result, nilResult |-> FALSE, found |-> FALSE,
              err |-> "nil"]
        ELSE [profile |-> IF err = "nil" THEN c[emailAddress] ELSE result,
              nilResult |-> FALSE, found |-> TRUE, err |-> "nil"]

GetProfileCall(p, emailAddress, dial, query) ==
    /\ pc[p] = "idle"
    /\ LET r == GetProfile(profiles, emailAddress, dial, query)
       IN  last' = [NoCall EXCEPT
                      !.op = "GetProfile", !.caller = p, !.key = emailAddress,
                      !.err = r.err, !.found = r.found,
                      !.nilResult = r.nilResult, !.profile = r.profile,
                      !.failed = (dial = "fail" \/ query = "fail"),
                      !.present = (emailAddress \in DOMAIN profiles),
                      !.pre = Stored(profiles, emailAddress)]
    /\ UNCHANGED <<profiles, skills, configuration, nextKey, clock, pc, local,
                   cfglog, nUpserts>>

----------------------------------------------------------------------------
(* UpdateProfile, lines 61-114 *)

\* lines 86-94 without the test of line 86
MoveSkillsToHistoryAlways(profile) ==
    Append(profile.SkillsHistory,
           [Date |-> profile.LastUpdated, Skills |-> profile.Skills])

\* lines 86-94 assigning the new entry instead of appending it
MoveSkillsToHistoryReplace(profile) ==
    IF Len(profile.Skills) > 0
    THEN <<[Date |-> profile.LastUpdated, Skills |-> profile.Skills]>>
    ELSE profile.SkillsHistory

\* lines 86-94: the current skills move to the history when there are any
MoveSkillsToHistory(profile) ==
    IF Len(profile.Skills) > 0
    THEN Append(profile.SkillsHistory,
                [Date |-> profile.LastUpdated, Skills |-> profile.Skills])
    ELSE profile.SkillsHistory

\* lines 96-98: the loop variable of a range loop is a copy of the element,
\* so assigning to its field changes the slice only through a pointer element
RangeToLower(updateSkills) ==
    [i \in DOMAIN updateSkills |->
        IF SkillElementsAreValues
        THEN updateSkills[i]
        ELSE [updateSkills[i] EXCEPT !.Skill = ToLower(@)]]

\* line 102 adding two
IncrementVersionTwice(version) == version + 2

\* line 102
IncrementVersion(version) == version + 1

\* lines 86-104: the profile that is upserted, from the fetched one
UpdatedProfile(profile, update, now) ==
    [EmailAddress |-> profile.EmailAddress,
     Domain |-> getDomain(update.EmailAddress),
     Skills |-> RangeToLower(update.Skills),
     SkillsHistory |-> MoveSkillsToHistory(profile),
     Availability |-> update.Availability,
     Version |-> IncrementVersion(profile.Version),
     LastUpdated |-> now]

UpsertsInFlight == Cardinality({q \in Callers : pc[q] = "UpdateProfile_upsert"})

\* lines 61-84: Dial, then GetProfile; an error of either returns (nil, err)
UpdateProfileFetch(p, update, dial, gdial, query) ==
    /\ pc[p] = "idle"
    /\ nUpserts + UpsertsInFlight < MaxUpserts
    /\ LET r == GetProfile(profiles, update.EmailAddress, gdial, query)
           err == IF dial = "fail" THEN "ErrDial" ELSE r.err
       IN  IF err # "nil"
           THEN /\ last' = [NoCall EXCEPT
                              !.op = "UpdateProfile", !.caller = p,
                              !.key = update.EmailAddress, !.update = update,
                              !.err = err, !.failed = TRUE,
                              !.present = (update.EmailAddress \in DOMAIN profiles),
                              !.pre = Stored(profiles, update.EmailAddress)]
                /\ UNCHANGED <<pc, local>>
           ELSE /\ pc' = [pc EXCEPT ![p] = "UpdateProfile_upsert"]
                /\ local' = [local EXCEPT ![p] =
                               [update |-> update, profile |-> r.profile,
                                found |-> r.found,
                                failed |-> (query = "fail"),
                                present |-> (update.EmailAddress \in DOMAIN profiles),
                                pre |-> Stored(profiles, update.EmailAddress),
                                generated |-> FALSE, inserted |-> FALSE]]
                /\ UNCHANGED last
    /\ UNCHANGED <<profiles, skills, configuration, nextKey, clock, cfglog,
                   nUpserts>>

\* lines 86-113: the upsert keyed by profile.EmailAddress, at time now
UpdateProfileUpsert(p, now, write) ==
    /\ pc[p] = "UpdateProfile_upsert"
    /\ now \in clock..MaxClock
    /\ LET update == local[p].update
           profile == UpdatedProfile(local[p].profile, update, now)
           key == update.EmailAddress
           ret == [NoCall EXCEPT
                     !.op = "UpdateProfile", !.caller = p, !.key = key,
                     !.update = update, !.found = local[p].found,
                     !.failed = (write = "fail" \/ local[p].failed),
                     !.present = (key \in DOMAIN profiles),
                     !.pre = Stored(profiles, key),
                     !.quiet = /\ local[p].present = (key \in DOMAIN profiles)
                               /\ local[p].pre = Stored(profiles, key),
                     !.fetched = local[p].profile,
                     !.start = local[p].pre,
                     !.startPresent = local[p].present]
       IN  IF write = "fail"
           THEN /\ last' = [ret EXCEPT !.err = "ErrStorage"]
                /\ UNCHANGED <<profiles, nUpserts>>
           ELSE /\ profiles' = UpsertId(profiles, profile.EmailAddress, profile)
                /\ nUpserts' = nUpserts + 1
                /\ last' = [ret EXCEPT !.err = "nil", !.nilResult = FALSE,
                                       !.profile = profile]
    /\ clock' = now
    /\ pc' = [pc EXCEPT ![p] = "idle"]
    /\ local' = [local EXCEPT ![p] = NoLocal]
    /\ UNCHANGED <<skills, configuration, nextKey, cfglog>>

----------------------------------------------------------------------------
(* DeleteProfile, lines 166-181 *)

DeleteProfile(p, emailAddress, dial, rm) ==
    /\ pc[p] = "idle"
    /\ LET err == IF dial = "fail" THEN "ErrDial"
                  ELSE RemoveIdErr(profiles, emailAddress, rm)
       IN  /\ last' = [NoCall EXCEPT
                         !.op = "DeleteProfile", !.caller = p,
                         !.key = emailAddress, !.err = err,
                         !.found = (err = "nil"),
                         !.failed = (dial = "fail" \/ rm = "fail"),
                         !.present = (emailAddress \in DOMAIN profiles),
                         !.pre = Stored(profiles, emailAddress),
                         !.before = profiles]
           /\ profiles' = IF dial = "fail" THEN profiles
                          ELSE RemoveId(profiles, emailAddress, rm)
    /\ UNCHANGED <<skills, configuration, nextKey, clock, pc, local, cfglog,
                   nUpserts>>

----------------------------------------------------------------------------
(* ListProfiles, lines 184-201 *)

\* Find(bson.M{"domain": domain}).All: the documents whose domain field
\* equals the value
FindByDomain(c, domain) == {c[k] : k \in {j \in DOMAIN c : c[j].Domain = domain}}

ListProfiles(p, emailAddress, dial, query) ==
    /\ pc[p] = "idle"
    /\ LET err == IF dial = "fail" THEN "ErrDial"
                  ELSE IF query = "fail" THEN "ErrStorage" ELSE "nil"
       IN  last' = [NoCall EXCEPT
                      !.op = "ListProfiles", !.caller = p,
                      !.key = emailAddress, !.err = err,
                      !.nilResult = (err # "nil"),
                      !.list = IF err = "nil"
                               THEN FindByDomain(profiles, getDomain(emailAddress))
                               ELSE {},
                      !.failed = (err # "nil")]
    /\ UNCHANGED <<profiles, skills, configuration, nextKey, clock, pc, local,
                   cfglog, nUpserts>>

----------------------------------------------------------------------------
(* the profile store *)

Init ==
    /\ profiles = <<>>
    /\ skills = <<>>
    /\ configuration = <<>>
    /\ nextKey = 0
    /\ clock = 1
    /\ pc = [p \in Callers |-> "idle"]
    /\ local = [p \in Callers |-> NoLocal]
    /\ last = NoCall
    /\ cfglog = <<>>
    /\ nUpserts = 0

Next ==
    \E p \in SeqCallers :
        \/ \E e \in HistoryEmails, dial \in Outcomes, query \in Outcomes :
              GetProfileCall(p, e, dial, query)
        \/ \E u \in UpdatesFor(HistoryEmails), dial \in Outcomes, gdial \in Outcomes,
              query \in Outcomes :
              UpdateProfileFetch(p, u, dial, gdial, query)
        \/ \E now \in 1..MaxClock, write \in Outcomes :
              UpdateProfileUpsert(p, now, write)
        \/ \E e \in HistoryEmails, dial \in Outcomes, rm \in Outcomes :
              DeleteProfile(p, e, dial, rm)

Spec == Init /\ [][Next]_vars

----------------------------------------------------------------------------
(* Properties of the profile store.  last is the call that returned most     *)
(* recently: last.present and last.pre are the document stored under its    *)
(* key just before its write (or read), last.quiet says that no other call  *)
(* wrote that key between its fetch and its upsert, last.failed that one of *)
(* its storage calls failed.  A collection changes only in the step in      *)
(* which a call returns, so profiles is the store that call left.           *)

UpdateSucceeded ==
    last.op = "UpdateProfile" /\ last.err = "nil" /\ last.quiet

SkillNames(skillList) == [i \in DOMAIN skillList |-> ToLower(skillList[i].Skill)]
SkillLevels(skillList) == [i \in DOMAIN skillList |-> skillList[i].Level]

\* the same skills, names compared without regard to letter case
SameSkills(s, t) ==
    SkillNames(s) = SkillNames(t) /\ SkillLevels(s) = SkillLevels(t)

\* C1: a successful UpdateProfile of a profile whose stored Skills were not
\* empty stores the old SkillsHistory with exactly one entry appended,
\* {Date: old LastUpdated, Skills: old Skills}, and the supplied Skills as
\* the current ones.
C1_HistoryRollover ==
    (UpdateSucceeded /\ last.present /\ Len(last.pre.Skills) > 0) =>
        /\ last.key \in DOMAIN profiles
        /\ profiles[last.key].SkillsHistory =
              Append(last.pre.SkillsHistory,
                     [Date |-> last.pre.LastUpdated, Skills |-> last.pre.Skills])
        /\ SameSkills(profiles[last.key].Skills, last.update.Skills)

\* C2: a successful UpdateProfile stores the previous Version plus one,
\* whatever the update holds; a failed one leaves the stored Version alone.
C2_VersionPlusOne ==
    /\ UpdateSucceeded =>
          /\ last.key \in DOMAIN profiles
          /\ profiles[last.key].Version = last.pre.Version + 1
    /\ (last.op = "UpdateProfile" /\ last.err # "nil") =>
          /\ (last.key \in DOMAIN profiles) = last.present
          /\ Stored(profiles, last.key).Version = last.pre.Version

\* C3: UpdateProfile on a key with no stored profile (never created, or
\* deleted) stores a profile with Version 1 and an empty SkillsHistory.
C3_CreateIsVersionOne ==
    (UpdateSucceeded /\ ~last.present) =>
        /\ last.key \in DOMAIN profiles
        /\ profiles[last.key].Version = 1
        /\ profiles[last.key].SkillsHistory = <<>>

\* a profile is created again after DeleteProfile removed it
C3_Witness ==
    /\ UpdateSucceeded /\ ~last.present
    /\ nUpserts >= 2
    /\ Len(last.update.Skills) > 0
    /\ last.key \in DOMAIN profiles /\ profiles[last.key].Version = 1

\* C6: GetProfile reports found only for a key that is stored, an absent
\* key as not found without an error, and a failed lookup as an error.
C6_GetProfileOutcomes ==
    last.op = "GetProfile" =>
        /\ (last.found /\ last.err = "nil") => (last.present /\ ~last.failed)
        /\ (~last.failed /\ ~last.present) => (~last.found /\ last.err = "nil")
        /\ last.failed => last.err # "nil"

\* C9: after a successful UpdateProfile every stored and returned skill
\* name is the lowercased form of the supplied one.
C9_SkillNamesLowercased ==
    (last.op = "UpdateProfile" /\ last.err = "nil") =>
        /\ last.key \in DOMAIN profiles
        /\ \A i \in DOMAIN last.update.Skills :
              /\ profiles[last.key].Skills[i].Skill = ToLower(last.update.Skills[i].Skill)
              /\ last.profile.Skills[i].Skill = ToLower(last.update.Skills[i].Skill)
        /\ \A i \in DOMAIN profiles[last.key].Skills :
              \A j \in DOMAIN profiles[last.key].Skills[i].Skill :
                 ~IsUpper(profiles[last.key].Skills[i].Skill[j])

----------------------------------------------------------------------------
(* the profile store as a directory: three keys, two of them of one domain *)

DirectoryUpdates ==
    [EmailAddress : Emails, Skills : {<<SkillGo>>}, Availability : {"weekdays"}]

NextDirectory ==
    \E p \in SeqCallers :
        \/ \E u \in DirectoryUpdates, dial \in Outcomes, gdial \in Outcomes,
              query \in Outcomes :
              UpdateProfileFetch(p, u, dial, gdial, query)
        \/ \E now \in 1..MaxClock, write \in Outcomes :
              UpdateProfileUpsert(p, now, write)
        \/ \E e \in Emails, dial \in Outcomes, rm \in Outcomes :
              DeleteProfile(p, e, dial, rm)
        \/ \E e \in Emails, dial \in Outcomes, query \in Outcomes :
              ListProfiles(p, e, dial, query)

SpecDirectory == Init /\ [][NextDirectory]_vars

\* the collection without the document of a key
Without(c, id) == [k \in DOMAIN c \ {id} |-> c[k]]

\* C7: DeleteProfile of a key that is not stored returns found=false and no
\* error and leaves the store as it was; of a stored key it removes that
\* document alone and returns found=true.
C7_DeleteProfileOutcomes ==
    (last.op = "DeleteProfile" /\ ~last.failed) =>
        IF last.key \in DOMAIN last.before
        THEN /\ last.found /\ last.err = "nil"
             /\ profiles = Without(last.before, last.key)
        ELSE /\ ~last.found /\ last.err = "nil"
             /\ profiles = last.before

\* the lowercased part of an address after its '@'
AtIndex(e) == CHOOSE i \in DOMAIN e : e[i] = "@" /\ \A j \in 1..(i - 1) : e[j] # "@"
DomainPart(e) == ToLower(SubSeq(e, AtIndex(e) + 1, Len(e)))

SameDomainKeys(c, e) == {k \in DOMAIN c : DomainPart(k) = DomainPart(e)}

\* C10: every stored profile's Domain is the lowercased part of its key
\* after the '@', and ListProfiles(e) returns exactly the stored profiles of
\* the lowercased domain of e, an empty result being no error.
C10_DomainScopedList ==
    /\ \A k \in DOMAIN profiles :
          /\ profiles[k].EmailAddress = k
          /\ profiles[k].Domain = DomainPart(k)
    /\ (last.op = "ListProfiles" /\ ~last.failed) =>
          /\ last.err = "nil"
          /\ last.list = {profiles[k] : k \in SameDomainKeys(profiles, last.key)}

\* a@X lists the profiles of a@X and b@x and not the stored one of c@y
C10_Witness ==
    /\ last.op = "ListProfiles" /\ last.err = "nil"
    /\ Cardinality(last.list) = 2
    /\ Cardinality(DOMAIN profiles) = 3
    /\ \E k \in DOMAIN profiles : profiles[k].Domain # <<"x">>

----------------------------------------------------------------------------
(* the skill tag store *)

\* tag texts: two that differ in letter case only, one with a space
TagTexts == { <<"G","o">>, <<"g","o">>, <<"c"," ","D">> }

\* the batches of at most MaxBatch tags
Batches == UNION {[1..n -> TagTexts] : n \in 0..MaxBatch}

\* the orders in which a query may return the documents of a collection
Orders(c) ==
    {f \in [1..Cardinality(DOMAIN c) -> DOMAIN c] :
        \A i, j \in DOMAIN f : f[i] = f[j] => i = j}

\* ListSkillTags, lines 117-141: order is one of the orders of Find(nil).All
ListSkillTags(p, dial, query, order) ==
    /\ pc[p] = "idle"
    /\ order \in Orders(skills)
    /\ LET ret == [NoCall EXCEPT !.op = "ListSkillTags", !.caller = p,
                                 !.failed = (dial = "fail" \/ query = "fail")]
       IN  last' =
             IF dial = "fail" THEN [ret EXCEPT !.err = "ErrDial"]
             ELSE IF query = "fail" THEN [ret EXCEPT !.err = "nil"]
             ELSE [ret EXCEPT !.err = "nil", !.nilResult = FALSE,
                              !.tags = [i \in DOMAIN order |-> skills[order[i]].Name]]
    /\ UNCHANGED <<profiles, skills, configuration, nextKey, clock, pc, local,
                   cfglog, nUpserts>>

\* the loop of lines 154-160 going on after a failed upsert
RECURSIVE UpsertUpTo(_, _, _)
UpsertUpTo(c, tags, n) ==
    IF n = 0 THEN c
    ELSE UpsertId(UpsertUpTo(c, tags, n - 1), tags[n], [Name |-> CleanTag(tags[n])])

UpsertTagsPastFailure(c, tags, n) == UpsertUpTo(c, tags, Len(tags))

\* lines 154-160: the collection after the first n tags were upserted, each
\* keyed by its text and holding SkillTag{CleanTag(tag)}
RECURSIVE UpsertTags(_, _, _)
UpsertTags(c, tags, n) ==
    IF n = 0 THEN c
    ELSE UpsertId(UpsertTags(c, tags, n - 1), tags[n], [Name |-> CleanTag(tags[n])])

\* AddSkillTags, lines 144-163: failAt is the position of the tag whose
\* upsert fails, 0 when none does
AddSkillTags(p, tags, dial, failAt) ==
    /\ pc[p] = "idle"
    /\ failAt \in 0..Len(tags)
    /\ LET err == IF dial = "fail" THEN "ErrDial"
                  ELSE IF failAt > 0 THEN "ErrStorage" ELSE "nil"
           done == IF dial = "fail" THEN 0
                   ELSE IF failAt > 0 THEN failAt - 1 ELSE Len(tags)
       IN  /\ skills' = UpsertTags(skills, tags, done)
           /\ last' = [NoCall EXCEPT !.op = "AddSkillTags", !.caller = p,
                                     !.batch = tags, !.failAt = failAt,
                                     !.err = err, !.failed = (err # "nil"),
                                     !.before = skills]
    /\ UNCHANGED <<profiles, configuration, nextKey, clock, pc, local, cfglog,
                   nUpserts>>

\* the loop of lines 216-222 returning at the first ErrNotFound
RECURSIVE RemoveUntilNotFound(_, _, _, _)
RemoveUntilNotFound(c, tags, i, n) ==
    IF i > n \/ tags[i] \notin DOMAIN c THEN c
    ELSE RemoveUntilNotFound(RemoveId(c, tags[i], "ok"), tags, i + 1, n)

RemoveTagsStopAtNotFound(c, tags, n) == RemoveUntilNotFound(c, tags, 1, n)

\* lines 216-222: the collection after the first n tags were removed; a tag
\* that is not stored gives ErrNotFound, which the loop passes over
RECURSIVE RemoveTags(_, _, _)
RemoveTags(c, tags, n) ==
    IF n = 0 THEN c
    ELSE RemoveId(RemoveTags(c, tags, n - 1), tags[n], "ok")

\* DeleteSkillTags, lines 208-224: failAt is the position of the tag whose
\* removal fails with an error other than ErrNotFound, 0 when none does
DeleteSkillTags(p, tags, dial, failAt) ==
    /\ pc[p] = "idle"
    /\ failAt \in 0..Len(tags)
    /\ LET err == IF dial = "fail" THEN "ErrDial"
                  ELSE IF failAt > 0 THEN "ErrStorage" ELSE "nil"
           done == IF dial = "fail" THEN 0
                   ELSE IF failAt > 0 THEN failAt - 1 ELSE Len(tags)
       IN  /\ skills' = RemoveTags(skills, tags, done)
           /\ last' = [NoCall EXCEPT !.op = "DeleteSkillTags", !.caller = p,
                                     !.batch = tags, !.failAt = failAt,
                                     !.err = err, !.failed = (err # "nil"),
                                     !.before = skills]
    /\ UNCHANGED <<profiles, configuration, nextKey, clock, pc, local, cfglog,
                   nUpserts>>

NextTags ==
    \E p \in SeqCallers :
        \/ \E dial \in Outcomes, query \in Outcomes, order \in Orders(skills) :
              ListSkillTags(p, dial, query, order)
        \/ \E tags \in Batches, dial \in Outcomes, failAt \in 0..MaxBatch :
              AddSkillTags(p, tags, dial, failAt)
        \/ \E tags \in Batches, dial \in Outcomes, failAt \in 0..MaxBatch :
              DeleteSkillTags(p, tags, dial, failAt)

SpecTags == Init /\ [][NextTags]_vars

\* C8: an operation one of whose storage calls failed returns an error
\* (a not-found that the operation treats as a normal outcome and the
\* ignored insert of the configuration are no failures).
C8_FailuresSurface ==
    last.failed => last.err # "nil"

\* C11: ListSkillTags returns no normalized tag name twice: the skills
\* collection holds at most one document per CleanTag value.
C11_DistinctTags ==
    /\ \A k1, k2 \in DOMAIN skills :
          skills[k1].Name = skills[k2].Name => k1 = k2
    /\ (last.op = "ListSkillTags" /\ ~last.nilResult) =>
          \A i, j \in DOMAIN last.tags : last.tags[i] = last.tags[j] => i = j

\* the tags at the first n positions of a batch
FirstTags(tags, n) == {tags[j] : j \in 1..n}

\* the collection holds the same under every key outside a set
SameOutside(c, d, keys) ==
    /\ DOMAIN c \ keys = DOMAIN d \ keys
    /\ \A k \in DOMAIN c \ keys : c[k] = d[k]

\* C12: when the upsert of the i-th tag fails, AddSkillTags returns the
\* error, the tags before position i are stored under their own text with
\* their CleanTag form, and nothing else of the collection has changed;
\* with no failure every tag of the batch is stored so.
C12_AddAbortsAtFailure ==
    (last.op = "AddSkillTags" /\ last.err # "ErrDial") =>
        LET n == IF last.failAt > 0 THEN last.failAt - 1 ELSE Len(last.batch)
            written == FirstTags(last.batch, n)
        IN  /\ (last.failAt > 0) = (last.err # "nil")
            /\ \A t \in written :
                  t \in DOMAIN skills /\ skills[t] = [Name |-> CleanTag(t)]
            /\ SameOutside(skills, last.before, written)

\* the second upsert of a batch failed: the first tag is stored, the
\* second is not
C12_Witness ==
    /\ last.op = "AddSkillTags" /\ last.err = "ErrStorage" /\ last.failAt = 2
    /\ last.batch[1] \in DOMAIN skills /\ last.batch[1] \notin DOMAIN last.before
    /\ last.batch[2] \notin DOMAIN skills

\* C13: DeleteSkillTags whose removals fail with nothing but not-found
\* returns no error, removes every tag of the batch and nothing else, and
\* the same batch run again changes nothing; a removal that fails otherwise
\* at position i returns the error with only the tags before i removed.
C13_DeleteIgnoresNotFound ==
    (last.op = "DeleteSkillTags" /\ last.err # "ErrDial") =>
        LET n == IF last.failAt > 0 THEN last.failAt - 1 ELSE Len(last.batch)
            gone == FirstTags(last.batch, n)
        IN  /\ (last.failAt > 0) = (last.err # "nil")
            /\ DOMAIN skills = DOMAIN last.before \ gone
            /\ \A k \in DOMAIN skills : skills[k] = last.before[k]
            /\ last.failAt = 0 =>
                  RemoveTags(skills, last.batch, Len(last.batch)) = skills

\* a batch of a tag that is not stored followed by one that is: no error,
\* and the stored one is removed
C13_Witness ==
    /\ last.op = "DeleteSkillTags" /\ last.err = "nil"
    /\ Len(last.batch) = 2
    /\ last.batch[1] \notin DOMAIN last.before
    /\ last.batch[2] \in DOMAIN last.before
    /\ last.batch[2] \notin DOMAIN skills
    /\ skills # <<>>

----------------------------------------------------------------------------
(* the configuration store, lines 231-279 *)

\* NewConfiguration(key): the singleton document, keyed "configuration";
\* NewConfiguration(nil) has no key yet
NewConfiguration(key) == [ID |-> "configuration", SessionEncryptionKey |-> key]

\* Configuration{}
ZeroConfiguration == [ID |-> "", SessionEncryptionKey |-> 0]

\* createSessionEncryptionKey(): a key that was not generated before
createSessionEncryptionKey(n) == n + 1

\* getConfiguration, lines 231-243
getConfiguration(c, dial, query) ==
    LET err == FindIdOne(c, "configuration", query)
    IN  IF dial = "fail"
        THEN [configuration |-> ZeroConfiguration, err |-> "ErrDial"]
        ELSE [configuration |-> IF err = "nil" THEN c["configuration"]
                                ELSE NewConfiguration(0),
              err |-> err]

\* an insert that does not look at the stored ids
InsertErrNoDuplicate(c, doc, ins) ==
    IF ins = "fail" THEN "ErrStorage" ELSE "nil"

\* Collection.Insert: a document whose id is stored already is rejected
InsertErr(c, doc, ins) ==
    IF ins = "fail" THEN "ErrStorage"
    ELSE IF doc.ID \in DOMAIN c THEN "ErrDuplicateKey" ELSE "nil"

\* an insert that replaces a stored document of the same id
InsertOrReplace(c, doc, ins) ==
    IF ins = "fail" THEN c ELSE UpsertId(c, doc.ID, doc)

Insert(c, doc, ins) ==
    IF InsertErr(c, doc, ins) = "nil" THEN UpsertId(c, doc.ID, doc) ELSE c

\* a drop that removes nothing
DropCollectionKeeps(c) == c

\* Collection.DropCollection: every document of the collection goes
DropCollection(c) == <<>>

\* line 261 testing err != nil
NeedsCreateOnAnyError(err) == err # "nil"

\* line 261: the configuration is created when the fetch found none
NeedsCreate(err) == err = "ErrNotFound"

PushLog(log, r) ==
    IF Len(log) < LogDepth THEN Append(log, r) ELSE Append(Tail(log), r)

CfgReturn(p, op, r, failed, generated, inserted) ==
    /\ cfglog' = PushLog(cfglog,
                   [op |-> op, caller |-> p, err |-> r.err,
                    key |-> r.configuration.SessionEncryptionKey,
                    generated |-> generated, inserted |-> inserted])
    /\ last' = [NoCall EXCEPT !.op = op, !.caller = p, !.err = r.err,
                              !.failed = failed, !.nilResult = FALSE]

CreatesInFlight == Cardinality({q \in Callers : pc[q] = "GetOrCreate_create"})

\* GetOrCreateConfiguration, lines 259-266: the first fetch
GetOrCreateFetch(p, dial, query) ==
    /\ pc[p] = "idle"
    /\ nextKey + CreatesInFlight < MaxKeys
    /\ LET r == getConfiguration(configuration, dial, query)
       IN  IF NeedsCreate(r.err)
           THEN /\ pc' = [pc EXCEPT ![p] = "GetOrCreate_create"]
                /\ UNCHANGED <<cfglog, last>>
           ELSE /\ CfgReturn(p, "GetOrCreateConfiguration", r,
                             dial = "fail" \/ query = "fail", FALSE, FALSE)
                /\ UNCHANGED pc
    /\ UNCHANGED <<profiles, skills, configuration, nextKey, clock, local,
                   nUpserts>>

\* attemptToCreateConfiguration, lines 245-255, whose error line 262 drops
GetOrCreateCreate(p, dial, ins) ==
    /\ pc[p] = "GetOrCreate_create"
    /\ LET key == createSessionEncryptionKey(nextKey)
           doc == NewConfiguration(key)
       IN  IF dial = "fail"
           THEN /\ UNCHANGED <<configuration, nextKey>>
                /\ local' = [local EXCEPT ![p] = NoLocal]
           ELSE /\ nextKey' = key
                /\ configuration' = Insert(configuration, doc, ins)
                /\ local' = [local EXCEPT ![p] =
                               [NoLocal EXCEPT
                                  !.generated = TRUE,
                                  !.inserted =
                                     (InsertErr(configuration, doc, ins) = "nil")]]
    /\ pc' = [pc EXCEPT ![p] = "GetOrCreate_refetch"]
    /\ UNCHANGED <<profiles, skills, clock, last, cfglog, nUpserts>>

\* line 263: the second fetch, returned as it is
GetOrCreateRefetch(p, dial, query) ==
    /\ pc[p] = "GetOrCreate_refetch"
    /\ CfgReturn(p, "GetOrCreateConfiguration",
                 getConfiguration(configuration, dial, query),
                 dial = "fail" \/ query = "fail",
                 local[p].generated, local[p].inserted)
    /\ pc' = [pc EXCEPT ![p] = "idle"]
    /\ local' = [local EXCEPT ![p] = NoLocal]
    /\ UNCHANGED <<profiles, skills, configuration, nextKey, clock, nUpserts>>

\* DeleteConfiguration, lines 270-279
DeleteConfiguration(p, dial, drop) ==
    /\ pc[p] = "idle"
    /\ LET err == IF dial = "fail" THEN "ErrDial"
                  ELSE IF drop = "fail" THEN "ErrStorage" ELSE "nil"
       IN  /\ configuration' = IF err = "nil" THEN DropCollection(configuration)
                               ELSE configuration
           /\ CfgReturn(p, "DeleteConfiguration",
                        [configuration |-> ZeroConfiguration, err |-> err],
                        err # "nil", FALSE, FALSE)
    /\ UNCHANGED <<profiles, skills, nextKey, clock, pc, local, nUpserts>>

NextConfig ==
    \E p \in SeqCallers :
        \/ \E dial \in Outcomes, query \in Outcomes : GetOrCreateFetch(p, dial, query)
        \/ \E dial \in Outcomes, ins \in Outcomes : GetOrCreateCreate(p, dial, ins)
        \/ \E dial \in Outcomes, query \in Outcomes : GetOrCreateRefetch(p, dial, query)
        \/ \E dial \in Outcomes, drop \in Outcomes : DeleteConfiguration(p, dial, drop)

SpecConfig == Init /\ [][NextConfig]_vars

GotKey(r) == r.op = "GetOrCreateConfiguration" /\ r.err = "nil"

\* C4: of two GetOrCreateConfiguration calls that return one after the
\* other with nothing between them, the second returns the key of the first
\* and generates and inserts nothing.
C4_SameKeyTwice ==
    \A i \in 1..(Len(cfglog) - 1) :
        (GotKey(cfglog[i]) /\ GotKey(cfglog[i + 1])) =>
            /\ cfglog[i + 1].key = cfglog[i].key
            /\ ~cfglog[i + 1].generated
            /\ ~cfglog[i + 1].inserted

\* the first call created the configuration, the second found it
C4_Witness ==
    /\ Len(cfglog) >= 2
    /\ GotKey(cfglog[Len(cfglog) - 1]) /\ cfglog[Len(cfglog) - 1].inserted
    /\ GotKey(cfglog[Len(cfglog)])
    /\ cfglog[Len(cfglog)].key = cfglog[Len(cfglog) - 1].key

\* C5: GetOrCreateConfiguration returned K, DeleteConfiguration succeeded,
\* and the next GetOrCreateConfiguration returns a key generated by that
\* call, which is not K.
C5_NewKeyAfterDelete ==
    \A i \in 1..(Len(cfglog) - 2) :
        (/\ GotKey(cfglog[i])
         /\ cfglog[i + 1].op = "DeleteConfiguration" /\ cfglog[i + 1].err = "nil"
         /\ GotKey(cfglog[i + 2])) =>
            /\ cfglog[i + 2].key # cfglog[i].key
            /\ cfglog[i + 2].generated /\ cfglog[i + 2].inserted

C5_Witness ==
    /\ Len(cfglog) >= 3
    /\ GotKey(cfglog[Len(cfglog) - 2])
    /\ cfglog[Len(cfglog) - 1].op = "DeleteConfiguration"
    /\ cfglog[Len(cfglog) - 1].err = "nil"
    /\ GotKey(cfglog[Len(cfglog)])
    /\ cfglog[Len(cfglog)].key # cfglog[Len(cfglog) - 2].key

----------------------------------------------------------------------------
(* the tag normalizer, lines 226-229 *)

TagAlphabet == {"G", "L", "o", " ", "-"}

GoLang == <<"G","o"," ","L","a","n","g">>

\* the tags CleanTag is applied to
TagInputs == UNION {[1..n -> TagAlphabet] : n \in 0..MaxTagLen} \cup {GoLang}

InitCleanTag ==
    /\ profiles = <<>>
    /\ skills = <<>>
    /\ configuration = <<>>
    /\ nextKey = 0
    /\ clock = 1
    /\ pc = [p \in Callers |-> "idle"]
    /\ local = [p \in Callers |-> NoLocal]
    /\ \E tag \in TagInputs : last = [NoCall EXCEPT !.op = "tag", !.batch = <<tag>>]
    /\ cfglog = <<>>
    /\ nUpserts = 0

\* CleanTag(tag)
CleanTagCall ==
    /\ last.op = "tag"
    /\ last' = [last EXCEPT !.op = "CleanTag", !.tags = <<CleanTag(last.batch[1])>>]
    /\ UNCHANGED <<profiles, skills, configuration, nextKey, clock, pc, local,
                   cfglog, nUpserts>>

\* CleanTag applied to the result of CleanTag(tag)
CleanTagAgain ==
    /\ last.op = "CleanTag"
    /\ last' = [last EXCEPT !.op = "CleanTagTwice",
                            !.tags = <<last.tags[1], CleanTag(last.tags[1])>>]
    /\ UNCHANGED <<profiles, skills, configuration, nextKey, clock, pc, local,
                   cfglog, nUpserts>>

NextCleanTag == CleanTagCall \/ CleanTagAgain

SpecCleanTag == InitCleanTag /\ [][NextCleanTag]_vars

\* what the normalizer is to make of a character
NormalChar(c) ==
    CASE c = " " -> "-"
      [] c = "G" -> "g"
      [] c = "L" -> "l"
      [] OTHER -> c

\* C14: CleanTag gives, for every tag, the tag with each letter in lower
\* case and each space replaced by a hyphen ("Go Lang" gives "go-lang"),
\* and CleanTag of the result is the result.
C14_CleanTagIdempotent ==
    last.op \in {"CleanTag", "CleanTagTwice"} =>
        /\ Len(last.tags[1]) = Len(last.batch[1])
        /\ \A i \in DOMAIN last.batch[1] :
              last.tags[1][i] = NormalChar(last.batch[1][i])
        /\ last.batch[1] = GoLang =>
              last.tags[1] = <<"g","o","-","l","a","n","g">>
        /\ last.op = "CleanTagTwice" => last.tags[2] = last.tags[1]

\* CleanTag was applied twice to a tag with capitals and a space
C14_Witness ==
    /\ last.op = "CleanTagTwice"
    /\ last.batch[1] = GoLang
    /\ last.tags[2] = <<"g","o","-","l","a","n","g">>

----------------------------------------------------------------------------
(* concurrent UpdateProfile calls on one key *)

RaceCallers == {"c1", "c2"}

\* the updates of the racing callers: different skills, different availability
RaceUpdates ==
    {u \in UpdatesFor(HistoryEmails) :
        \/ u.Skills = <<SkillGo>>
        \/ u.Skills = <<SkillRust>> /\ u.Availability = "weekends"}

\* Dial succeeds; the lookup and the upsert may fail
NextRace ==
    \E p \in RaceCallers :
        \/ \E u \in RaceUpdates, query \in Outcomes :
              UpdateProfileFetch(p, u, "ok", "ok", query)
        \/ \E now \in 1..MaxClock, write \in Outcomes :
              UpdateProfileUpsert(p, now, write)

SpecRace == Init /\ [][NextRace]_vars

\* In last, start is the document stored when the call fetched, fetched the
\* profile its GetProfile returned, pre the document stored just before
\* its upsert.

IsPrefix(h, g) == Len(h) <= Len(g) /\ \A i \in DOMAIN h : g[i] = h[i]

\* the history a profile gets when its skills are superseded
RolledHistory(d) ==
    IF d.Skills = <<>> THEN d.SkillsHistory
    ELSE d.SkillsHistory \o <<[Date |-> d.LastUpdated, Skills |-> d.Skills]>>

\* an UpdateProfile returned nil, every storage call of it succeeded, and
\* another call wrote its key between its fetch and its upsert
Overwrote ==
    last.op = "UpdateProfile" /\ last.err = "nil" /\ ~last.failed /\ ~last.quiet

\* C15: when another UpdateProfile upserts the key between a call's fetch
\* and that call's upsert, both succeed and the stored profile is the one
\* the later upsert made from the document it fetched: Version one above
\* the starting Version, history and skills without the earlier update.
C15_LostUpdate ==
    Overwrote =>
        /\ last.key \in DOMAIN profiles
        /\ profiles[last.key].Version = last.start.Version + 1
        /\ profiles[last.key].SkillsHistory = RolledHistory(last.start)
        /\ SameSkills(profiles[last.key].Skills, last.update.Skills)
        /\ profiles[last.key].Availability = last.update.Availability

\* both calls fetched the absent profile; the second upsert leaves Version 1
\* and nothing of the skills the first one stored
C15_Witness ==
    /\ Overwrote /\ ~last.startPresent
    /\ nUpserts = 2
    /\ last.pre.Version = 1 /\ profiles[last.key].Version = 1
    /\ ~SameSkills(last.pre.Skills, profiles[last.key].Skills)
    /\ profiles[last.key].SkillsHistory = <<>>

----------------------------------------------------------------------------
(* concurrent first calls of GetOrCreateConfiguration, lines 258-266: every
   storage call succeeds, an insert is rejected only as a duplicate *)

NextBootstrap ==
    \E p \in Callers :
        \/ GetOrCreateFetch(p, "ok", "ok")
        \/ GetOrCreateCreate(p, "ok", "ok")
        \/ GetOrCreateRefetch(p, "ok", "ok")

SpecBootstrap == Init /\ [][NextBootstrap]_vars

StoredKey == configuration["configuration"].SessionEncryptionKey

\* the callers back from attemptToCreateConfiguration whose insert succeeded
Winners ==
    {q \in Callers : pc[q] = "GetOrCreate_refetch" /\ local[q].inserted}

\* C18: from an absent configuration, without DeleteConfiguration and
\* without storage failure, the configuration is written only while it is
\* absent (one insert succeeds), and every GetOrCreateConfiguration call,
\* a creator whose insert was rejected included, returns no error and the
\* stored key, which is the key of the one successful creator.
C18_OneCreatorWins ==
    /\ [](/\ \A i \in DOMAIN cfglog :
                /\ cfglog[i].op = "GetOrCreateConfiguration"
                /\ cfglog[i].err = "nil"
                /\ configuration # <<>>
                /\ cfglog[i].key = StoredKey
          /\ Cardinality(Winners)
                + Cardinality({i \in DOMAIN cfglog : cfglog[i].inserted}) <= 1)
    /\ [][configuration' # configuration =>
             /\ configuration = <<>>
             /\ configuration' =
                   [id \in {"configuration"} |-> NewConfiguration(nextKey')]
             /\ Cardinality(Winners') = Cardinality(Winners) + 1]_vars

\* three callers all went to create: one inserted, the others were rejected,
\* and all three returned the key of the one
C18_Witness ==
    /\ Len(cfglog) = 3
    /\ {cfglog[i].caller : i \in DOMAIN cfglog} = Callers
    /\ \A i \in DOMAIN cfglog : GotKey(cfglog[i]) /\ cfglog[i].generated
    /\ Cardinality({i \in DOMAIN cfglog : cfglog[i].inserted}) = 1
    /\ \A i \in DOMAIN cfglog : cfglog[i].key = StoredKey
    /\ nextKey = 3

----------------------------------------------------------------------------
(* concurrent GetOrCreateConfiguration and DeleteConfiguration, lines
   258-279, every storage call failing or not *)

\* Dial succeeds; the fetches, the insert and the drop may fail
NextConfigRace ==
    \E p \in RaceCallers :
        \/ \E query \in Outcomes : GetOrCreateFetch(p, "ok", query)
        \/ \E ins \in Outcomes : GetOrCreateCreate(p, "ok", ins)
        \/ \E query \in Outcomes : GetOrCreateRefetch(p, "ok", query)
        \/ \E drop \in Outcomes : DeleteConfiguration(p, "ok", drop)

SpecConfigRace == Init /\ [][NextConfigRace]_vars

\* C19: the configuration collection holds at most the document keyed
\* "configuration", and a stored document changes only by being removed by
\* a DeleteConfiguration that returns no error: its key stays as generated
\* for as long as it is stored.
C19_SingleStableConfiguration ==
    /\ [](DOMAIN configuration \subseteq {"configuration"})
    /\ [][(configuration # <<>> /\ configuration' # configuration) =>
             /\ configuration' = <<>>
             /\ last'.op = "DeleteConfiguration" /\ last'.err = "nil"]_vars

\* a second configuration is stored after a delete, and a creator that
\* generated a later key while it was stored has left it as it was
C19_Witness ==
    /\ configuration # <<>>
    /\ StoredKey = 2
    /\ \E q \in RaceCallers :
          /\ pc[q] = "GetOrCreate_refetch"
          /\ local[q].generated /\ ~local[q].inserted
    /\ nextKey = 3

----------------------------------------------------------------------------
(* concurrent UpdateProfile and DeleteProfile calls, lines 61-114 and
   166-181, each caller on an email address of its own *)

KeyOf ==
    [p \in Callers |->
        IF p = "c1" THEN <<"a","@","X">>
        ELSE IF p = "c2" THEN <<"b","@","x">>
        ELSE <<"c","@","y">>]

\* Dial succeeds; the lookup, the upsert and the removal may fail
NextIndependent ==
    \E p \in Callers :
        \/ \E u \in DirectoryUpdates, query \in Outcomes :
              /\ u.EmailAddress = KeyOf[p]
              /\ UpdateProfileFetch(p, u, "ok", "ok", query)
        \/ \E now \in 1..MaxClock, write \in Outcomes :
              UpdateProfileUpsert(p, now, write)
        \/ \E rm \in Outcomes : DeleteProfile(p, KeyOf[p], "ok", rm)

SpecIndependent == Init /\ [][NextIndependent]_vars

SameAt(c, d, k) ==
    /\ (k \in DOMAIN c) = (k \in DOMAIN d)
    /\ k \in DOMAIN c => c[k] = d[k]

\* C20: with every caller on its own key, a step that writes the store
\* writes only the document of the key of the call that took it, and the
\* document of a call's key is, between the call's fetch and its upsert, the
\* one it was at the fetch: every UpdateProfile acts on its key as if it
\* ran alone.
C20_IndependentKeys ==
    /\ [](/\ \A p \in Callers :
                pc[p] = "UpdateProfile_upsert" =>
                    /\ local[p].update.EmailAddress = KeyOf[p]
                    /\ local[p].present = (KeyOf[p] \in DOMAIN profiles)
                    /\ local[p].pre = Stored(profiles, KeyOf[p])
          /\ (last.op = "UpdateProfile" /\ last.err = "nil") => last.quiet)
    /\ [][profiles' # profiles =>
             /\ last'.key = KeyOf[last'.caller]
             /\ \A k \in Emails \ {last'.key} : SameAt(profiles, profiles', k)]_vars

\* a DeleteProfile removed its own document while another caller was
\* between the fetch and the upsert of an update of a stored profile, which
\* is stored as it was
C20_Witness ==
    /\ last.op = "DeleteProfile" /\ last.err = "nil"
    /\ \E q \in Callers \ {last.caller} :
          /\ pc[q] = "UpdateProfile_upsert"
          /\ local[q].present
          /\ KeyOf[q] \in DOMAIN profiles
          /\ profiles[KeyOf[q]] = local[q].pre
    /\ last.present /\ last.key \notin DOMAIN profiles

====
